---- MODULE Spec2Model ----
(***************************************************************************)
(* A model of the chess rules engine of src/chess.py (class Chess).        *)
(*                                                                         *)
(* A square is a pair <<rank, file>>, both in 0..7, as in the source       *)
(* (str_to_coor returns (rank, file)).  The board is a tuple of 8 ranks,   *)
(* each a tuple of 8 piece values (0 is empty), rank 0 first, as the       *)
(* source's 8x8 array.  A text (Python str) is a sequence of one-character *)
(* strings.  A notation record (FEN) is the tuple of its six               *)
(* space-separated fields; its board field is the tuple of its             *)
(* '/'-separated rank texts.  Python's None is the empty tuple.            *)
(*                                                                         *)
(* The variables board .. lastFen are the attributes one Chess object      *)
(* reads; moves, long_castle and short_castle are the class's dicts.  The  *)
(* variable other holds the attributes bound on a second object of the     *)
(* class; outcome is what the caller of the last call saw.                 *)
(***************************************************************************)
EXTENDS Integers, Sequences, FiniteSets, TLC

VARIABLES board, toMove, enPassantTarget, long_castle, short_castle,
          halfMoveClock, moveCounter, moves, lastFen, outcome, other

vars == <<board, toMove, enPassantTarget, long_castle, short_castle,
          halfMoveClock, moveCounter, moves, lastFen, outcome, other>>

None == <<>>

\* ---------------------------------------------------------------- pieces
PAWN == 1
KNIGHT == 2
BISHOP == 4
ROOK == 8
QUEEN == 16
KING == 32

WHITE == 0
BLACK == 64

opposite(c) == IF c = WHITE THEN BLACK ELSE WHITE

ColourStr(c) == IF c = 0 THEN "White" ELSE "Black"

\* pieceValues: the dict letter -> value
pieceValues ==
  ("P" :> PAWN + WHITE) @@ ("N" :> KNIGHT + WHITE) @@ ("B" :> BISHOP + WHITE) @@
  ("R" :> ROOK + WHITE) @@ ("Q" :> QUEEN + WHITE) @@ ("K" :> KING + WHITE) @@
  ("p" :> PAWN + BLACK) @@ ("n" :> KNIGHT + BLACK) @@ ("b" :> BISHOP + BLACK) @@
  ("r" :> ROOK + BLACK) @@ ("q" :> QUEEN + BLACK) @@ ("k" :> KING + BLACK)

\* valuePieces: the reverse dict value -> letter
valuePieces ==
  (PAWN + WHITE :> "P") @@ (KNIGHT + WHITE :> "N") @@ (BISHOP + WHITE :> "B") @@
  (ROOK + WHITE :> "R") @@ (QUEEN + WHITE :> "Q") @@ (KING + WHITE :> "K") @@
  (PAWN + BLACK :> "p") @@ (KNIGHT + BLACK :> "n") @@ (BISHOP + BLACK :> "b") @@
  (ROOK + BLACK :> "r") @@ (QUEEN + BLACK :> "q") @@ (KING + BLACK :> "k")

\* val_to_piece: None for 0, else <<kind, colour>>
val_to_piece(value) ==
  IF value = 0 THEN None
  ELSE LET c == IF value > 64 THEN BLACK ELSE WHITE IN <<value - c, c>>

piece_to_val(p, c) == p + c

\* ------------------------------------------------------------ coordinates
fileLetters == <<"A", "B", "C", "D", "E", "F", "G", "H">>
lowerLetters == <<"a", "b", "c", "d", "e", "f", "g", "h">>

\* str.upper on a file letter
upper(ch) ==
  IF \E i \in 1..8 : lowerLetters[i] = ch
  THEN fileLetters[CHOOSE i \in 1..8 : lowerLetters[i] = ch]
  ELSE ch

\* files and ranks: the dicts character -> index
files ==
  ("A" :> 0) @@ ("B" :> 1) @@ ("C" :> 2) @@ ("D" :> 3) @@
  ("E" :> 4) @@ ("F" :> 5) @@ ("G" :> 6) @@ ("H" :> 7)

ranks ==
  ("1" :> 0) @@ ("2" :> 1) @@ ("3" :> 2) @@ ("4" :> 3) @@
  ("5" :> 4) @@ ("6" :> 5) @@ ("7" :> 6) @@ ("8" :> 7)

\* str_to_coor: <<rank, file>>, or None for the InvalidSquare condition
str_to_coor(square_not) ==
  IF Len(square_not) >= 2
     /\ upper(square_not[1]) \in DOMAIN files
     /\ square_not[2] \in DOMAIN ranks
  THEN << ranks[square_not[2]], files[upper(square_not[1])] >>
  ELSE None

\* coor_to_str with the two characters in the order rank, file
coor_to_str_rank_first(coordinate) ==
  << CHOOSE r \in DOMAIN ranks : ranks[r] = coordinate[1],
     CHOOSE f \in DOMAIN files : files[f] = coordinate[2] >>

\* coor_to_str: the keys of files and ranks with the coordinate's values
coor_to_str(coordinate) ==
  << CHOOSE f \in DOMAIN files : files[f] = coordinate[2],
     CHOOSE r \in DOMAIN ranks : ranks[r] = coordinate[1] >>

\* ------------------------------------------------------------------ board
\* an index of the 8x8 array: a negative index counts from the end
idx(i) == IF i < 0 THEN i + 8 ELSE i

At(b, c) == b[idx(c[1]) + 1][idx(c[2]) + 1]

Put(b, c, v) == [b EXCEPT ![idx(c[1]) + 1][idx(c[2]) + 1] = v]

OnBoard(c) == c[1] >= 0 /\ c[1] <= 7 /\ c[2] >= 0 /\ c[2] <= 7

\* the squares in row-major order (np.where's order)
AllSquares == [i \in 1..64 |-> << (i - 1) \div 8, (i - 1) % 8 >>]

InSeq(x, s) == \E i \in 1..Len(s) : s[i] = x

Range(s) == {s[i] : i \in 1..Len(s)}

\* --------------------------------------------------------- move generator
\* _pawn_fields: pseudo-legal pawn destinations, in the source's order
pawn_fields(b, ep, start, colour) ==
  LET d == IF colour = WHITE THEN 1 ELSE -1
      in_front == <<start[1] + d, start[2]>>
      in_front2 == <<start[1] + 2 * d, start[2]>>
      start_rank == IF colour = WHITE THEN 1 ELSE 6
      fwd == IF At(b, in_front) = 0
             THEN <<in_front>> \o
                  (IF start[1] = start_rank /\ At(b, in_front2) = 0
                   THEN <<in_front2>> ELSE <<>>)
             ELSE <<>>
      diag1 == <<in_front[1], in_front[2] - 1>>
      diag2 == <<in_front[1], in_front[2] + 1>>
      c1 == IF in_front[2] > 0 /\ At(b, diag1) > 0
               /\ val_to_piece(At(b, diag1))[2] # colour
            THEN <<diag1>> ELSE <<>>
      c2 == IF in_front[2] < 7 /\ At(b, diag2) > 0
               /\ val_to_piece(At(b, diag2))[2] # colour
            THEN <<diag2>> ELSE <<>>
      epf == IF ep \in {diag1, diag2} THEN <<ep>> ELSE <<>>
  IN fwd \o c1 \o c2 \o epf

knights_move ==
  << <<2, 1>>, <<2, -1>>, <<-2, 1>>, <<-2, -1>>,
     <<1, 2>>, <<-1, 2>>, <<1, -2>>, <<-1, -2>> >>

knight_fields(b, start, colour) ==
  LET tars == [i \in 1..8 |-> <<start[1] + knights_move[i][1],
                                start[2] + knights_move[i][2]>>]
      Keep(tar) == /\ OnBoard(tar)
                   /\ ~(At(b, tar) > 0 /\ val_to_piece(At(b, tar))[2] = colour)
  IN SelectSeq(tars, Keep)

\* one ray of _bishop_fields/_rook_fields: the squares from cur in direction
\* d up to the board edge, an own piece (excluded) or an enemy piece (included)
RECURSIVE Ray(_, _, _, _)
Ray(b, colour, cur, d) ==
  LET nxt == <<cur[1] + d[1], cur[2] + d[2]>> IN
  IF ~OnBoard(nxt) THEN <<>>
  ELSE LET tar_val == At(b, nxt) IN
       IF tar_val > 0
       THEN (IF val_to_piece(tar_val)[2] = colour THEN <<>> ELSE <<nxt>>)
       ELSE <<nxt>> \o Ray(b, colour, nxt, d)

bishop_fields(b, start, colour) ==
  Ray(b, colour, start, <<1, 1>>) \o Ray(b, colour, start, <<1, -1>>) \o
  Ray(b, colour, start, <<-1, 1>>) \o Ray(b, colour, start, <<-1, -1>>)

rook_fields(b, start, colour) ==
  Ray(b, colour, start, <<0, 1>>) \o Ray(b, colour, start, <<0, -1>>) \o
  Ray(b, colour, start, <<1, 0>>) \o Ray(b, colour, start, <<-1, 0>>)

Max2(a, c) == IF a > c THEN a ELSE c

Min2(a, c) == IF a < c THEN a ELSE c

king_fields(b, start, colour) ==
  LET lo1 == Max2(start[1] - 1, 0)
      hi1 == Min2(start[1] + 2, 8) - 1
      lo2 == Max2(start[2] - 1, 0)
      hi2 == Min2(start[2] + 2, 8) - 1
      w == hi2 - lo2 + 1
      n == (hi1 - lo1 + 1) * w
      tars == [k \in 1..n |-> <<lo1 + ((k - 1) \div w), lo2 + ((k - 1) % w)>>]
      Keep(tar) == ~(At(b, tar) > 0 /\ val_to_piece(At(b, tar))[2] = colour)
  IN SelectSeq(tars, Keep)

\* _reachable_fields: dispatch on the kind of the piece on coordinate
reachable_fields(b, ep, coordinate) ==
  LET p == val_to_piece(At(b, coordinate)) IN
  IF p = None THEN <<>>
  ELSE IF p[1] = PAWN THEN pawn_fields(b, ep, coordinate, p[2])
  ELSE IF p[1] = KNIGHT THEN knight_fields(b, coordinate, p[2])
  ELSE IF p[1] = BISHOP THEN bishop_fields(b, coordinate, p[2])
  ELSE IF p[1] = ROOK THEN rook_fields(b, coordinate, p[2])
  ELSE IF p[1] = QUEEN
       THEN bishop_fields(b, coordinate, p[2]) \o rook_fields(b, coordinate, p[2])
  ELSE IF p[1] = KING THEN king_fields(b, coordinate, p[2])
  ELSE <<>>

\* _get_pieces_by_colour: squares with colour < value < colour + 64
get_pieces_by_colour(b, colour) ==
  LET Mine(c) == At(b, c) > colour /\ At(b, c) < colour + 64
  IN SelectSeq(AllSquares, Mine)

\* in_check: the first square holding colour's king is among the reachable
\* fields of some piece of the opposite colour
in_check(b, ep, colour) ==
  LET IsKing(c) == At(b, c) = KING + colour
      king_coor == SelectSeq(AllSquares, IsKing)[1]
      them == get_pieces_by_colour(b, opposite(colour))
  IN \E i \in 1..Len(them) : InSeq(king_coor, reachable_fields(b, ep, them[i]))

\* --------------------------------------------------------- notation codec
digitChars == <<"0", "1", "2", "3", "4", "5", "6", "7", "8", "9">>

digitValues ==
  ("0" :> 0) @@ ("1" :> 1) @@ ("2" :> 2) @@ ("3" :> 3) @@ ("4" :> 4) @@
  ("5" :> 5) @@ ("6" :> 6) @@ ("7" :> 7) @@ ("8" :> 8) @@ ("9" :> 9)

IsDigit(ch) == ch \in DOMAIN digitValues

digitValue(ch) == digitValues[ch]

\* str(n) of a non-negative integer: its decimal digits
RECURSIVE str(_)
str(n) ==
  IF n < 10 THEN <<digitChars[n + 1]>>
  ELSE str(n \div 10) \o <<digitChars[(n % 10) + 1]>>

\* int(text) of a text of decimal digits; -1 stands for the ValueError
RECURSIVE int(_)
int(text) ==
  IF Len(text) = 0 \/ ~IsDigit(text[Len(text)]) THEN -1
  ELSE IF Len(text) = 1 THEN digitValue(text[1])
  ELSE LET hi == int(SubSeq(text, 1, Len(text) - 1)) IN
       IF hi = -1 THEN -1 ELSE hi * 10 + digitValue(text[Len(text)])

\* get_fen's inner loop over the squares i..8 of one rank, zeros pending
RECURSIVE fen_rank(_, _, _)
fen_rank(rank, i, zeros) ==
  IF i > 8 THEN (IF zeros > 0 THEN str(zeros) ELSE <<>>)
  ELSE IF rank[i] \in DOMAIN valuePieces
       THEN (IF zeros > 0 THEN str(zeros) ELSE <<>>)
            \o <<valuePieces[rank[i]]>> \o fen_rank(rank, i + 1, 0)
       ELSE fen_rank(rank, i + 1, zeros + 1)

castling_avail(s) ==
  LET t == (IF s.short_castle[WHITE] THEN <<"K">> ELSE <<>>)
           \o (IF s.long_castle[WHITE] THEN <<"Q">> ELSE <<>>)
           \o (IF s.short_castle[BLACK] THEN <<"k">> ELSE <<>>)
           \o (IF s.long_castle[BLACK] THEN <<"q">> ELSE <<>>)
  IN IF t = <<>> THEN <<"-">> ELSE t

\* get_fen: the six fields of the notation record of state s
get_fen(s) ==
  << << fen_rank(s.board[8], 1, 0), fen_rank(s.board[7], 1, 0),
        fen_rank(s.board[6], 1, 0), fen_rank(s.board[5], 1, 0),
        fen_rank(s.board[4], 1, 0), fen_rank(s.board[3], 1, 0),
        fen_rank(s.board[2], 1, 0), fen_rank(s.board[1], 1, 0) >>,
     IF s.toMove = WHITE THEN <<"w">> ELSE <<"b">>,
     castling_avail(s),
     IF s.enPassantTarget = None THEN <<"-">> ELSE coor_to_str(s.enPassantTarget),
     str(s.halfMoveClock),
     str(s.moveCounter) >>

\* _half_move_counter: the ply index of state s
half_move_counter(s) ==
  IF s.toMove = WHITE THEN (s.moveCounter - 1) * 2
  ELSE (s.moveCounter - 1) * 2 + 1

emptyRank == <<0, 0, 0, 0, 0, 0, 0, 0>>

\* np.zeros((8, 8))
emptyBoard ==
  <<emptyRank, emptyRank, emptyRank, emptyRank,
    emptyRank, emptyRank, emptyRank, emptyRank>>

\* set_fen's loop over the characters i.. of rank text r: the board so far
\* and the error that ended the loop ("" when it ran to the end)
RECURSIVE parse_rank(_, _, _, _, _)
parse_rank(b, rank, r, i, file) ==
  IF i > Len(r) THEN [board |-> b, err |-> ""]
  ELSE IF IsDigit(r[i])
       THEN parse_rank(b, rank, r, i + 1, file + digitValue(r[i]))
  ELSE IF r[i] \notin DOMAIN pieceValues THEN [board |-> b, err |-> "KeyError"]
  ELSE IF rank > 7 \/ file > 7 THEN [board |-> b, err |-> "IndexError"]
  ELSE parse_rank(Put(b, <<rank, file>>, pieceValues[r[i]]), rank, r, i + 1, file + 1)

\* set_fen's loop over reversed(fen_ranks), from its k-th element on
RECURSIVE parse_ranks(_, _, _)
parse_ranks(b, fen_ranks, k) ==
  IF k > Len(fen_ranks) THEN [board |-> b, err |-> ""]
  ELSE LET one == parse_rank(b, k - 1, fen_ranks[Len(fen_ranks) + 1 - k], 1, 0) IN
       IF one.err # "" THEN one ELSE parse_ranks(one.board, fen_ranks, k + 1)

\* dict assignment d[k] = v
DictPut(d, k, v) == (k :> v) @@ d

NoRaise == <<"", "">>

\* set_fen, lines 333-368, with the decoded board field: the assignments in
\* order; a failure part-way leaves the assignments made before it
set_fen_fields(s, fen, pb) ==
  LET s1 == [s EXCEPT !.board = pb.board]
      s2 == [s1 EXCEPT !.toMove = IF fen[2] = <<"w">> THEN WHITE
                                  ELSE IF fen[2] = <<"b">> THEN BLACK
                                  ELSE s.toMove]
      s3 == [s2 EXCEPT
               !.short_castle = (WHITE :> InSeq("K", fen[3]))
                                @@ (BLACK :> InSeq("k", fen[3])),
               !.long_castle = (WHITE :> InSeq("Q", fen[3]))
                               @@ (BLACK :> InSeq("q", fen[3]))]
      ep == IF fen[4] # <<"-">> THEN str_to_coor(fen[4]) ELSE None
      s4 == [s3 EXCEPT !.enPassantTarget = ep]
      s5 == [s4 EXCEPT !.halfMoveClock = int(fen[5])]
      s6 == [s5 EXCEPT !.moveCounter = int(fen[6])]
  IN IF pb.err # "" THEN [st |-> s1, raised |-> <<pb.err, "">>]
     ELSE IF fen[4] # <<"-">> /\ ep = None
          THEN [st |-> s3, raised |-> <<"InvalidSquare", "">>]
     ELSE IF int(fen[5]) = -1 THEN [st |-> s4, raised |-> <<"ValueError", "">>]
     ELSE IF int(fen[6]) = -1 THEN [st |-> s5, raised |-> <<"ValueError", "">>]
     ELSE [st |-> [s6 EXCEPT !.moves = DictPut(s.moves, half_move_counter(s6), fen)],
           raised |-> NoRaise]

\* set_fen: the state after the call and the condition it raised
set_fen(s, fen) ==
  IF Len(fen) # 6
  THEN [st |-> s, raised |-> <<"ChessException", "Invalid FEN">>]
  ELSE set_fen_fields(s, fen, parse_ranks(emptyBoard, fen[1], 1))

startFen ==
  << << <<"r", "n", "b", "q", "k", "b", "n", "r">>,
        <<"p", "p", "p", "p", "p", "p", "p", "p">>,
        <<"8">>, <<"8">>, <<"8">>, <<"8">>,
        <<"P", "P", "P", "P", "P", "P", "P", "P">>,
        <<"R", "N", "B", "Q", "K", "B", "N", "R">> >>,
     <<"w">>, <<"K", "Q", "k", "q">>, <<"-">>, <<"0">>, <<"1">> >>

load_start(s) == set_fen(s, startFen).st

\* ------------------------------------------------------- applying a move
\* the en-passant capture that leaves the captured pawn on the board
passant_removed_never(b, ep, start, end, p) == b

\* _push_move, lines 240-242: the pawn taken en passant is removed
passant_removed(b, ep, start, end, p) ==
  IF p[1] = PAWN /\ end = ep
  THEN Put(b, <<start[1], ep[2]>>, 0) ELSE b

\* the promotion that always makes a queen
promoted_queen_always(b, end, p, promote_to) ==
  IF p[1] = PAWN /\ end[1] \in {0, 7}
  THEN Put(b, end, piece_to_val(QUEEN, p[2])) ELSE b

\* _push_move, lines 255-257: the pawn on the first or last rank is replaced
promoted(b, end, p, promote_to) ==
  IF p[1] = PAWN /\ end[1] \in {0, 7}
  THEN Put(b, end, piece_to_val(promote_to, p[2])) ELSE b

\* _push_move: remember the notation record, then move the piece on the board
push_move(s, start, end, p, promote_to) ==
  LET ep == s.enPassantTarget
      b0 == s.board
      b1 == passant_removed(b0, ep, start, end, p)
      b2 == IF p[1] = KING /\ end[2] - start[2] = 2
            THEN Put(Put(b1, <<start[1], start[2] + 1>>, At(b1, <<start[1], 7>>)),
                     <<start[1], 7>>, 0)
            ELSE b1
      b3 == IF p[1] = KING /\ end[2] - start[2] = -2
            THEN Put(Put(b2, <<start[1], start[2] - 1>>, At(b2, <<start[1], 0>>)),
                     <<start[1], 0>>, 0)
            ELSE b2
      b4 == Put(Put(b3, end, At(b3, start)), start, 0)
      b5 == promoted(b4, end, p, promote_to)
  IN [s EXCEPT !.lastFen = get_fen(s), !.board = b5]

\* _pop_move: decode the remembered notation record
pop_move(s) == set_fen(s, s.lastFen).st

\* list.remove: drop the first occurrence of x
RemoveFirst(lm, x) ==
  LET k == CHOOSE i \in 1..Len(lm) : lm[i] = x /\ \A j \in 1..(i - 1) : lm[j] # x
  IN SubSeq(lm, 1, k - 1) \o SubSeq(lm, k + 1, Len(lm))

\* legal_moves' loop over the candidates rf[i..], lines 303-312: each is
\* pushed, tested with in_check and popped; the state is threaded through the
\* pushes and pops
RECURSIVE legal_loop(_, _, _, _, _, _)
RECURSIVE legal_tested(_, _, _, _, _, _)
legal_loop(s, coordinate, p, rf, i, lm) ==
  IF i > Len(rf) THEN [lm |-> lm, st |-> s]
  ELSE legal_tested(push_move(s, coordinate, rf[i], p, QUEEN), coordinate, p, rf, i, lm)

\* legal_tested without the in_check test: every candidate is kept
legal_tested_unfiltered(pushed, coordinate, p, rf, i, lm) ==
  legal_loop(pop_move(pushed), coordinate, p, rf, i + 1, Append(lm, rf[i]))

\* lines 307-312: the candidate rf[i] has been pushed
legal_tested(pushed, coordinate, p, rf, i, lm) ==
  IF ~in_check(pushed.board, pushed.enPassantTarget, p[2])
  THEN legal_loop(pop_move(pushed), coordinate, p, rf, i + 1, Append(lm, rf[i]))
  ELSE legal_loop(pop_move(pushed), coordinate, p, rf, i + 1, lm)

\* lines 291-301: the pseudo-legal destinations and, for a king, the castling
\* destinations
candidates(s, coordinate, p) ==
  LET r == coordinate[1]
      c == coordinate[2]
      short == IF p[1] = KING /\ s.short_castle[p[2]]
                  /\ At(s.board, <<r, c + 1>>) = 0
                  /\ At(s.board, <<r, c + 2>>) = 0
               THEN << <<r, c + 2>> >> ELSE <<>>
      long == IF p[1] = KING /\ s.long_castle[p[2]]
                 /\ At(s.board, <<r, c - 1>>) = 0
                 /\ At(s.board, <<r, c - 2>>) = 0
                 /\ At(s.board, <<r, c - 3>>) = 0
              THEN << <<r, c - 2>> >> ELSE <<>>
  IN reachable_fields(s.board, s.enPassantTarget, coordinate) \o short \o long

\* castle_filter with the two tests of each condition exchanged: the one-step
\* move is dropped when castling is not in the list
castle_filter_swapped(lm, coordinate, p) ==
  LET r == coordinate[1]
      c == coordinate[2]
      lm1 == IF p[1] = KING /\ InSeq(<<r, c + 1>>, lm) /\ ~InSeq(<<r, c + 2>>, lm)
             THEN RemoveFirst(lm, <<r, c + 1>>) ELSE lm
  IN IF p[1] = KING /\ InSeq(<<r, c - 1>>, lm1) /\ ~InSeq(<<r, c - 2>>, lm1)
     THEN RemoveFirst(lm1, <<r, c - 1>>) ELSE lm1

\* lines 314-321: castling is dropped when the king's one-step move is not in
\* the list
castle_filter(lm, coordinate, p) ==
  LET r == coordinate[1]
      c == coordinate[2]
      lm1 == IF p[1] = KING /\ InSeq(<<r, c + 2>>, lm) /\ ~InSeq(<<r, c + 1>>, lm)
             THEN RemoveFirst(lm, <<r, c + 2>>) ELSE lm
  IN IF p[1] = KING /\ InSeq(<<r, c - 2>>, lm1) /\ ~InSeq(<<r, c - 1>>, lm1)
     THEN RemoveFirst(lm1, <<r, c - 2>>) ELSE lm1

\* lines 314-323 on the loop's result
legal_result(run, coordinate, p) ==
  [lm |-> castle_filter(run.lm, coordinate, p), st |-> run.st]

\* lines 291-323, for the piece p on the square
legal_moves_of(s, coordinate, p) ==
  IF p = None THEN [lm |-> <<>>, st |-> s]
  ELSE legal_result(legal_loop(s, coordinate, p, candidates(s, coordinate, p), 1, <<>>),
                    coordinate, p)

\* legal_moves: the list it returns and the state it leaves
legal_moves(s, coordinate) ==
  legal_moves_of(s, coordinate, val_to_piece(At(s.board, coordinate)))

\* _repetition: the first three fields of the current record occur more than
\* twice among the recorded ones
repetition(s) ==
  LET current == SubSeq(s.moves[half_move_counter(s)], 1, 3)
      count == Cardinality({k \in DOMAIN s.moves : SubSeq(s.moves[k], 1, 3) = current})
  IN count > 2

\* move's loop summing len(legal_moves(piece)) over pieces[i..], lines 171-173
RECURSIVE count_legal(_, _, _, _)
RECURSIVE count_add(_, _, _, _)
count_legal(s, pieces, i, n) ==
  IF i > Len(pieces) THEN [n |-> n, st |-> s]
  ELSE count_add(legal_moves(s, pieces[i]), pieces, i, n)

\* line 173: one piece's list is added
count_add(one, pieces, i, n) ==
  IF n + Len(one.lm) = 0
  THEN count_legal(one.st, pieces, i + 1, 0)
  ELSE count_legal(one.st, pieces, i + 1, n + Len(one.lm))

FiftyMoveLimit == 50

\* the en-passant target that is only set by White's double step
passant_target_white_only(p, start, end) ==
  IF p[1] = PAWN /\ end[1] - start[1] = 2
  THEN <<start[1] + 1, start[2]>>
  ELSE None

\* move, lines 136-143: the en-passant target is cleared, and set to the
\* square passed over when a pawn has made a double step
passant_target(p, start, end) ==
  IF p[1] = PAWN /\ end[1] - start[1] = 2
  THEN <<start[1] + 1, start[2]>>
  ELSE IF p[1] = PAWN /\ end[1] - start[1] = -2
  THEN <<start[1] - 1, start[2]>>
  ELSE None

\* the half-move clock that is only reset by a capture
clock_after_captures_only(clock, capture, p) ==
  IF capture THEN 0 ELSE clock + 1

\* move, lines 156-159: the half-move clock
clock_after(clock, capture, p) ==
  IF capture \/ p[1] = PAWN THEN 0 ELSE clock + 1

\* move, lines 130-165: the accepted move is applied and recorded
move_apply(s0, start, end, p, promote_to) ==
  LET capture == At(s0.board, end) # 0
      s1 == push_move(s0, start, end, p, promote_to)
      ep == passant_target(p, start, end)
      long1 == IF p[1] = KING \/ start \in {<<0, 0>>, <<7, 0>>}
               THEN [s1.long_castle EXCEPT ![p[2]] = FALSE]
               ELSE s1.long_castle
      short1 == IF p[1] = KING \/ start \in {<<0, 7>>, <<7, 7>>}
                THEN [s1.short_castle EXCEPT ![p[2]] = FALSE]
                ELSE s1.short_castle
      turn == opposite(s1.toMove)
      s2 == [s1 EXCEPT
               !.enPassantTarget = ep,
               !.long_castle = long1,
               !.short_castle = short1,
               !.toMove = turn,
               !.halfMoveClock = clock_after(s1.halfMoveClock, capture, p),
               !.moveCounter = IF turn = WHITE THEN s1.moveCounter + 1
                               ELSE s1.moveCounter]
  IN [s2 EXCEPT !.moves = DictPut(s2.moves, half_move_counter(s2), get_fen(s2))]

\* move_end without the in_check test: no legal move is always checkmate
move_end_always_mate(counted) ==
  IF counted.n = 0
  THEN [st |-> counted.st,
        raised |-> <<"CheckmateException", ColourStr(opposite(counted.st.toMove))>>]
  ELSE IF counted.st.halfMoveClock >= FiftyMoveLimit
  THEN [st |-> counted.st, raised |-> <<"DrawException", "Fifty move rule">>]
  ELSE [st |-> counted.st, raised |-> NoRaise]

\* move_end with the fifty-move test before the test for no legal move
move_end_fifty_first(counted) ==
  IF counted.st.halfMoveClock >= FiftyMoveLimit
  THEN [st |-> counted.st, raised |-> <<"DrawException", "Fifty move rule">>]
  ELSE IF counted.n = 0
  THEN (IF in_check(counted.st.board, counted.st.enPassantTarget, counted.st.toMove)
        THEN [st |-> counted.st,
              raised |-> <<"CheckmateException", ColourStr(opposite(counted.st.toMove))>>]
        ELSE [st |-> counted.st, raised |-> <<"DrawException", "Stalemate">>])
  ELSE [st |-> counted.st, raised |-> NoRaise]

\* move, lines 174-183: the legal moves of the side to move have been counted
move_end(counted) ==
  IF counted.n = 0
  THEN (IF in_check(counted.st.board, counted.st.enPassantTarget, counted.st.toMove)
        THEN [st |-> counted.st,
              raised |-> <<"CheckmateException", ColourStr(opposite(counted.st.toMove))>>]
        ELSE [st |-> counted.st, raised |-> <<"DrawException", "Stalemate">>])
  ELSE IF counted.st.halfMoveClock >= FiftyMoveLimit
  THEN [st |-> counted.st, raised |-> <<"DrawException", "Fifty move rule">>]
  ELSE [st |-> counted.st, raised |-> NoRaise]

\* move, lines 167-183: the win and draw conditions of the recorded position
move_result(s3) ==
  IF repetition(s3)
  THEN [st |-> s3, raised |-> <<"DrawException", "Threefold repetition">>]
  ELSE move_end(count_legal(s3, get_pieces_by_colour(s3.board, s3.toMove), 1, 0))

\* a win or draw condition raised with the fields as they were before the move
raised_before_applying(r, s0) ==
  IF r.raised[1] \in {"CheckmateException", "DrawException"}
  THEN [st |-> s0, raised |-> r.raised]
  ELSE r

\* move_listed raising the win and draw conditions without applying the move
move_listed_unapplied(checked, start, end, p, promote_to) ==
  IF ~InSeq(end, checked.lm)
  THEN [st |-> checked.st, raised |-> <<"IllegalMove", "Illegal move">>]
  ELSE raised_before_applying(
         move_result(move_apply(checked.st, start, end, p, promote_to)), checked.st)

\* move, lines 127-183: legal_moves(start) has been computed
move_listed(checked, start, end, p, promote_to) ==
  IF ~InSeq(end, checked.lm)
  THEN [st |-> checked.st, raised |-> <<"IllegalMove", "Illegal move">>]
  ELSE move_result(move_apply(checked.st, start, end, p, promote_to))

\* move_piece without the test of the piece's colour
move_piece_any_turn(s, start, end, p, promote_to) ==
  IF p = None
  THEN [st |-> s, raised |-> <<"NoPiecePresent", "No piece present">>]
  ELSE move_listed(legal_moves(s, start), start, end, p, promote_to)

\* move, lines 121-183, for the piece p on the start square
move_piece(s, start, end, p, promote_to) ==
  IF p = None
  THEN [st |-> s, raised |-> <<"NoPiecePresent", "No piece present">>]
  ELSE IF p[2] # s.toMove
  THEN [st |-> s, raised |-> <<"NotYourTurn", ColourStr(p[2])>>]
  ELSE move_listed(legal_moves(s, start), start, end, p, promote_to)

\* move: the state it leaves and the condition it raised
move(s, start, end, promote_to) ==
  move_piece(s, start, end, val_to_piece(At(s.board, start)), promote_to)

\* revert_move without the history: the start position is always loaded
revert_move_to_start(s) == load_start(s)

\* revert_move: decode the record of the previous ply, or load the start
revert_move(s) ==
  IF (half_move_counter(s) - 1) \in DOMAIN s.moves
  THEN set_fen(s, s.moves[half_move_counter(s) - 1]).st
  ELSE load_start(s)

\* ------------------------------------------------------------- the machine
\* the fields of the Chess object as one record
Self ==
  [board |-> board, toMove |-> toMove, enPassantTarget |-> enPassantTarget,
   long_castle |-> long_castle, short_castle |-> short_castle,
   halfMoveClock |-> halfMoveClock, moveCounter |-> moveCounter,
   moves |-> moves, lastFen |-> lastFen]

Install(s) ==
  /\ board' = s.board
  /\ toMove' = s.toMove
  /\ enPassantTarget' = s.enPassantTarget
  /\ long_castle' = s.long_castle
  /\ short_castle' = s.short_castle
  /\ halfMoveClock' = s.halfMoveClock
  /\ moveCounter' = s.moveCounter
  /\ moves' = s.moves
  /\ lastFen' = s.lastFen

\* the class attributes of Chess: the state of a newly constructed object
Init ==
  /\ board = emptyBoard
  /\ moves = <<>>
  /\ toMove = WHITE
  /\ enPassantTarget = None
  /\ long_castle = (WHITE :> TRUE) @@ (BLACK :> TRUE)
  /\ short_castle = (WHITE :> TRUE) @@ (BLACK :> TRUE)
  /\ halfMoveClock = 0
  /\ moveCounter = 1
  /\ lastFen = <<>>
  /\ outcome = [op |-> "new", raised |-> NoRaise, ret |-> <<>>]
  /\ other = [board |-> emptyBoard, toMove |-> WHITE, enPassantTarget |-> None,
              halfMoveClock |-> 0, moveCounter |-> 1, lastFen |-> <<>>]

\* a call ends: the object's fields and what the caller saw
Return(op, st, raised, ret) ==
  /\ Install(st)
  /\ outcome' = [op |-> op, raised |-> raised, ret |-> ret]
  /\ other' = other

LoadStart == Return("load_start", load_start(Self), NoRaise, <<>>)

\* the history records at most MaxPly + 1 plies
MaxPly == 9

MoveDone(r, start, end) ==
  Return("move", r.st, r.raised, IF r.raised = NoRaise THEN <<start, end>> ELSE <<>>)

Move(start, end, promote_to) ==
  /\ (half_move_counter(Self) + 1) \in DOMAIN moves
     \/ Cardinality(DOMAIN moves) <= MaxPly
  /\ MoveDone(move(Self, start, end, promote_to), start, end)

LegalMovesDone(r) == Return("legal_moves", r.st, NoRaise, r.lm)

LegalMoves(coordinate) == LegalMovesDone(legal_moves(Self, coordinate))

RevertMove == Return("revert_move", revert_move(Self), NoRaise, <<>>)

SetFenDone(r) == Return("set_fen", r.st, r.raised, <<>>)

SetFen(fen) == SetFenDone(set_fen(Self, fen))

\* ------------------------------------------------------------- the inputs
\* a move typed as four characters, split as chessBoard.py's dictate_move
\* does: start = str_to_coor(text[0:2]), end = str_to_coor(text[2:4])
Squares(text) == <<str_to_coor(SubSeq(text, 1, 2)), str_to_coor(SubSeq(text, 3, 4))>>

Txt4(a, b, c, d) == <<a, b, c, d>>

\* the position after 1. g4 as a standard notation record (lower-case
\* en-passant square)
fenAfterG4 ==
  << << <<"r", "n", "b", "q", "k", "b", "n", "r">>,
        <<"p", "p", "p", "p", "p", "p", "p", "p">>,
        <<"8">>, <<"8">>, <<"6", "P", "1">>, <<"8">>,
        <<"P", "P", "P", "P", "P", "P", "1", "P">>,
        <<"R", "N", "B", "Q", "K", "B", "N", "R">> >>,
     <<"b">>, <<"K", "Q", "k", "q">>, <<"g", "3">>, <<"0">>, <<"1">> >>

\* a queen ending, White to move, one ply short of the fifty-move limit:
\* Qg7 mates, Qg6 stalemates, Qg5 does neither
fenQueenEnding ==
  << << <<"7", "k">>, <<"5", "K", "2">>, <<"8">>, <<"8">>,
        <<"8">>, <<"8">>, <<"8">>, <<"6", "Q", "1">> >>,
     <<"w">>, <<"-">>, <<"-">>, <<"4", "9">>, <<"6", "0">> >>

FenInputs == {fenAfterG4, fenQueenEnding}

\* the moves the caller tries: the fool's mate, a pawn's three-square step
\* (never legal), and the queen and king moves of the ending
PoolMain ==
  { Txt4("F", "2", "F", "3"), Txt4("E", "7", "E", "5"), Txt4("G", "2", "G", "4"),
    Txt4("D", "8", "H", "4"), Txt4("E", "7", "E", "4"),
    Txt4("G", "1", "G", "6"), Txt4("G", "1", "G", "7"), Txt4("G", "1", "G", "5"),
    Txt4("H", "8", "H", "7") }

QueriesMain == { <<7, 7>> }

Rejections == {"NoPiecePresent", "NotYourTurn", "IllegalMove"}

\* the last call was a move and it was applied (it returned, or it raised a
\* win or draw condition)
Applied == outcome.op = "move" /\ outcome.raised[1] \notin Rejections

\* a session on a new object: the position is set up once, by load_start or by
\* set_fen; then moves are tried, squares are queried, and a move that was
\* applied is undone right away
MoveText(text) == Move(Squares(text)[1], Squares(text)[2], QUEEN)

NextOn(pool, fens, queries) ==
  \/ moves = <<>> /\ LoadStart
  \/ moves = <<>> /\ \E fen \in fens : SetFen(fen)
  \/ \E text \in pool : MoveText(text)
  \/ \E coordinate \in queries : LegalMoves(coordinate)
  \/ Applied /\ RevertMove

\* the same session set up by load_start only
NextGame(pool, queries) ==
  \/ moves = <<>> /\ LoadStart
  \/ \E text \in pool : MoveText(text)
  \/ \E coordinate \in queries : LegalMoves(coordinate)
  \/ Applied /\ RevertMove

\* a game played from load_start and never undone
NextPlay(pool) ==
  \/ moves = <<>> /\ LoadStart
  \/ \E text \in pool : MoveText(text)

Next == NextOn(PoolMain, FenInputs, QueriesMain)

Spec == Init /\ [][Next]_vars

\* 1. e4 Nc6 2. Bc4 Nb4 3. Nf3 Nd3+ and White's castling
PoolCastle ==
  { Txt4("E", "2", "E", "4"), Txt4("B", "8", "C", "6"), Txt4("F", "1", "C", "4"),
    Txt4("C", "6", "B", "4"), Txt4("G", "1", "F", "3"), Txt4("B", "4", "D", "3"),
    Txt4("E", "1", "G", "1") }

QueriesCastle == { <<0, 4>> }

NextCastle == NextGame(PoolCastle, QueriesCastle)

SpecCastle == Init /\ [][NextCastle]_vars

\* 1. e4 Nf6 2. Bc4 Ng4 3. Nf3 Ne3: the knight attacks f1, the square the king
\* passes when castling
PoolThrough ==
  { Txt4("E", "2", "E", "4"), Txt4("G", "8", "F", "6"), Txt4("F", "1", "C", "4"),
    Txt4("F", "6", "G", "4"), Txt4("G", "1", "F", "3"), Txt4("G", "4", "E", "3"),
    Txt4("E", "1", "G", "1") }

NextThrough == NextGame(PoolThrough, QueriesCastle)

SpecThrough == Init /\ [][NextThrough]_vars

\* the king's pawns and the knights going out and back
PoolRep ==
  { Txt4("E", "2", "E", "4"), Txt4("E", "7", "E", "5"),
    Txt4("G", "1", "F", "3"), Txt4("G", "8", "F", "6"),
    Txt4("F", "3", "G", "1"), Txt4("F", "6", "G", "8") }

NextRep == NextPlay(PoolRep)

SpecRep == Init /\ [][NextRep]_vars

\* ------------------------------------------------------------ properties
Abs(x) == IF x < 0 THEN -x ELSE x

Sign(x) == IF x < 0 THEN -1 ELSE IF x > 0 THEN 1 ELSE 0

\* the squares strictly between two squares of a rank, file or diagonal are empty
ClearBetween(b, from, to) ==
  LET dr == Sign(to[1] - from[1])
      df == Sign(to[2] - from[2])
      n == Max2(Abs(to[1] - from[1]), Abs(to[2] - from[2]))
  IN \A k \in 1..(n - 1) : At(b, <<from[1] + k * dr, from[2] + k * df>>) = 0

\* the rules' attack relation: the piece on `from` attacks the square `to`
Attacks(b, from, to) ==
  LET p == val_to_piece(At(b, from))
      dr == to[1] - from[1]
      df == to[2] - from[2]
      line == (dr = 0 \/ df = 0) /\ ClearBetween(b, from, to)
      diagonal == Abs(dr) = Abs(df) /\ ClearBetween(b, from, to)
  IN /\ p # None
     /\ from # to
     /\ CASE p[1] = PAWN -> dr = (IF p[2] = WHITE THEN 1 ELSE -1) /\ Abs(df) = 1
          [] p[1] = KNIGHT -> {Abs(dr), Abs(df)} = {1, 2}
          [] p[1] = BISHOP -> diagonal
          [] p[1] = ROOK -> line
          [] p[1] = QUEEN -> line \/ diagonal
          [] p[1] = KING -> Abs(dr) <= 1 /\ Abs(df) <= 1

\* the square is attacked by a piece of colour's opponent
Attacked(b, sq, colour) ==
  \E i \in 1..64 :
    /\ At(b, AllSquares[i]) > opposite(colour)
    /\ At(b, AllSquares[i]) < opposite(colour) + 64
    /\ Attacks(b, AllSquares[i], sq)

\* the board after the move sq -> d of the piece on sq, as _push_move makes it
Pushed(sq, d) == push_move(Self, sq, d, val_to_piece(At(board, sq)), QUEEN).board

\* the mover's king is not attacked after the move sq -> d
KingSafeAfter(sq, d) ==
  ~in_check(Pushed(sq, d), enPassantTarget, val_to_piece(At(board, sq))[2])

\* C1: in every position reached from the start position, every destination d
\* in legal_moves(s), for every square s, leads by _push_move to a position in
\* which the mover's king is not attacked
C1_LegalMovesKeepKingSafe ==
  \A i \in 1..64 :
    \A d \in Range(legal_moves(Self, AllSquares[i]).lm) :
      KingSafeAfter(AllSquares[i], d)

\* White is in check, the king's moves have been listed, and the a-pawn has
\* pseudo-legal moves, none of them legal
C1_Witness ==
  /\ outcome.op = "legal_moves"
  /\ outcome.ret # <<>>
  /\ in_check(board, enPassantTarget, WHITE)
  /\ reachable_fields(board, enPassantTarget, <<1, 0>>) # <<>>
  /\ legal_moves(Self, <<1, 0>>).lm = <<>>

\* the list legal_moves' loop builds for the piece on sq, before the castling
\* filter
Unfiltered(sq) ==
  legal_loop(Self, sq, val_to_piece(At(board, sq)),
             candidates(Self, sq, val_to_piece(At(board, sq))), 1, <<>>).lm

\* C2: in every position reached from the start position, every member of
\* _reachable_fields(s) that leaves the mover's king unattacked is in
\* legal_moves(s), and what the loop kept and legal_moves(s) lacks is a king's
\* move of two files
C2_SafeMovesAreLegal ==
  \A i \in 1..64 :
    LET sq == AllSquares[i]
        lm == legal_moves(Self, sq).lm
    IN At(board, sq) # 0 =>
       /\ \A d \in Range(reachable_fields(board, enPassantTarget, sq)) :
            KingSafeAfter(sq, d) => InSeq(d, lm)
       /\ \A d \in Range(Unfiltered(sq)) :
            ~InSeq(d, lm) => /\ At(board, sq) % 64 = KING
                             /\ Abs(d[2] - sq[2]) = 2

\* the moves of White's king on e1 have been listed: the loop kept castling to
\* g1, the filter dropped it, and the one-step move to e2 is listed
C2_Witness ==
  /\ outcome.op = "legal_moves"
  /\ At(board, <<0, 4>>) = KING + WHITE
  /\ InSeq(<<0, 6>>, Unfiltered(<<0, 4>>))
  /\ ~InSeq(<<0, 6>>, outcome.ret)
  /\ InSeq(<<1, 4>>, outcome.ret)

\* legal_moves lists the two-file move of the king on ksq towards the rook on
\* the side dir (1: the h-file, -1: the a-file)
CastleOffered(ksq, dir) ==
  InSeq(<<ksq[1], ksq[2] + 2 * dir>>, legal_moves(Self, ksq).lm)

\* the rules' conditions for that move: the right is set, the squares between
\* king and rook are empty, and the king's square, the square it passes and
\* the square it reaches are not attacked
CastleAllowed(ksq, colour, dir) ==
  /\ IF dir = 1 THEN short_castle[colour] ELSE long_castle[colour]
  /\ \A f \in 1..6 :
       (IF dir = 1 THEN f > ksq[2] ELSE f < ksq[2]) => At(board, <<ksq[1], f>>) = 0
  /\ ~Attacked(board, ksq, colour)
  /\ ~Attacked(board, <<ksq[1], ksq[2] + dir>>, colour)
  /\ ~Attacked(board, <<ksq[1], ksq[2] + 2 * dir>>, colour)

\* C3: in every position reached from the start position, castling is listed
\* for a king exactly when the right is set, the squares between king and rook
\* are empty and the king's square, the one-step square and the two-step square
\* are not attacked; so it is never listed for a king in check
C3_CastlingGating ==
  \A i \in 1..64 : \A colour \in {WHITE, BLACK} : \A dir \in {1, -1} :
    At(board, AllSquares[i]) = KING + colour =>
      (CastleOffered(AllSquares[i], dir) <=> CastleAllowed(AllSquares[i], colour, dir))

\* the move the caller types, tried on the current fields
TryMove(text) == move(Self, Squares(text)[1], Squares(text)[2], QUEEN)

\* the position: every field of the object but the history and lastFen
Position(s) ==
  <<s.board, s.toMove, s.long_castle, s.short_castle, s.enPassantTarget,
    s.halfMoveClock, s.moveCounter>>

RejectedKeeps(r) ==
  r.raised[1] \in Rejections => Position(r.st) = Position(Self) /\ r.st.moves = moves

\* C4: whenever move raises NoPiecePresent, NotYourTurn or IllegalMove, the
\* board, the side to move, the castling rights, the en-passant target, the two
\* counters and the history are what they were before the call
C4_RejectedMoveChangesNothing ==
  \A text \in PoolMain : RejectedKeeps(TryMove(text))

NotYourTurnUnchanged(r) == r.raised[1] = "NotYourTurn" /\ r.st = Self

\* C5: for every square holding a piece of the side that is not to move and
\* every end square, move raises NotYourTurn and changes no field
C5_TurnEnforced ==
  \A i \in 1..64 : \A j \in 1..64 :
    (At(board, AllSquares[i]) # 0
       /\ val_to_piece(At(board, AllSquares[i]))[2] # toMove)
    => NotYourTurnUnchanged(move(Self, AllSquares[i], AllSquares[j], QUEEN))

\* White is to move in the start position and a move of a black piece has
\* raised NotYourTurn; e5 is among the legal moves listed for the pawn on e7
C5_Witness ==
  /\ outcome.op = "move"
  /\ outcome.raised = <<"NotYourTurn", "Black">>
  /\ toMove = WHITE
  /\ half_move_counter(Self) = 0
  /\ At(board, <<6, 4>>) = PAWN + BLACK
  /\ InSeq(<<4, 4>>, legal_moves(Self, <<6, 4>>).lm)

UndoRestores(r) ==
  r.raised[1] \notin Rejections => get_fen(revert_move(r.st)) = get_fen(Self)

\* C6: revert_move right after a move that was applied (one that raised a win
\* or draw condition included) makes get_fen return the record it returned
\* before the move
C6_UndoRestoresRecord ==
  \A text \in PoolMain : UndoRestores(TryMove(text))

\* the queen's mating move of the fool's mate has been undone: the history
\* still holds the mate at ply 4 and the position is the one of ply 3
C6_Witness ==
  /\ outcome.op = "revert_move"
  /\ 0 \in DOMAIN moves
  /\ moves[0] = startFen
  /\ half_move_counter(Self) = 3
  /\ 4 \in DOMAIN moves
  /\ TryMove(Txt4("D", "8", "H", "4")).raised = <<"CheckmateException", "Black">>
  /\ get_fen(Self) = moves[3]

RoundTrip(r) == r.raised = NoRaise /\ Position(r.st) = Position(Self)

\* C7: set_fen(get_fen()) leaves the board, the side to move, the castling
\* rights, the en-passant target and the two counters as they are
C7_FenRoundTrip == RoundTrip(set_fen(Self, get_fen(Self)))

\* a pawn's double step from the start position has been applied: the
\* en-passant target is set
C7_Witness ==
  /\ Applied
  /\ 0 \in DOMAIN moves
  /\ moves[0] = startFen
  /\ enPassantTarget = <<2, 6>>
  /\ get_fen(Self)[4] = <<"G", "3">>

\* the side to move has no legal move with any of its pieces
NoLegalMove ==
  \A i \in 1..64 :
    (At(board, AllSquares[i]) > toMove /\ At(board, AllSquares[i]) < toMove + 64)
    => legal_moves(Self, AllSquares[i]).lm = <<>>

\* C8: after an applied move that is no threefold repetition: with no legal
\* move for the side to move, checkmate (the mover wins) is raised if that
\* side's king is attacked and stalemate if it is not; with a legal move,
\* neither is raised
C8_MateOrStalemate ==
  (Applied /\ outcome.raised # <<"DrawException", "Threefold repetition">>)
  => /\ (NoLegalMove /\ in_check(board, enPassantTarget, toMove))
          => outcome.raised = <<"CheckmateException", ColourStr(opposite(toMove))>>
     /\ (NoLegalMove /\ ~in_check(board, enPassantTarget, toMove))
          => outcome.raised = <<"DrawException", "Stalemate">>
     /\ ~NoLegalMove
          => /\ outcome.raised[1] # "CheckmateException"
             /\ outcome.raised # <<"DrawException", "Stalemate">>

\* F2F3, E7E5, G2G4, D8H4 from the start position: checkmate, Black wins
C8_Witness ==
  /\ outcome.op = "move"
  /\ outcome.raised = <<"CheckmateException", "Black">>
  /\ 0 \in DOMAIN moves
  /\ moves[0] = startFen
  /\ half_move_counter(Self) = 4
  /\ At(board, <<3, 7>>) = QUEEN + BLACK
  /\ At(board, <<2, 5>>) = PAWN + WHITE
  /\ At(board, <<3, 6>>) = PAWN + WHITE
  /\ At(board, <<4, 4>>) = PAWN + BLACK

\* the fields after the move start -> end of the piece on start, by the rules
FullyApplied(r, start, end) ==
  LET v == At(board, start)
      king == v % 64 = KING
      pawn == v % 64 = PAWN
  IN r.raised[1] \in {"CheckmateException", "DrawException"} =>
     /\ At(r.st.board, end) = IF pawn /\ end[1] \in {0, 7} THEN QUEEN + toMove ELSE v
     /\ At(r.st.board, start) = 0
     /\ r.st.toMove = opposite(toMove)
     /\ r.st.halfMoveClock = IF pawn \/ At(board, end) # 0 THEN 0 ELSE halfMoveClock + 1
     /\ r.st.moveCounter = IF toMove = BLACK THEN moveCounter + 1 ELSE moveCounter
     /\ r.st.long_castle[toMove]
          = (long_castle[toMove] /\ ~king /\ start \notin {<<0, 0>>, <<7, 0>>})
     /\ r.st.short_castle[toMove]
          = (short_castle[toMove] /\ ~king /\ start \notin {<<0, 7>>, <<7, 7>>})
     /\ r.st.long_castle[opposite(toMove)] = long_castle[opposite(toMove)]
     /\ r.st.short_castle[opposite(toMove)] = short_castle[opposite(toMove)]
     /\ half_move_counter(r.st) = half_move_counter(Self) + 1
     /\ half_move_counter(r.st) \in DOMAIN r.st.moves
     /\ r.st.moves[half_move_counter(r.st)] = get_fen(r.st)

\* C9: whenever move raises checkmate, stalemate or a draw, the move has been
\* applied: the piece stands on its destination, the side to move is toggled,
\* counters and castling rights are updated and the position is recorded at
\* the new ply
C9_EndingMoveIsApplied ==
  \A text \in PoolMain :
    FullyApplied(TryMove(text), Squares(text)[1], Squares(text)[2])

\* the queen's move to g6 has raised stalemate and the queen stands on g6
C9_Witness ==
  /\ outcome.op = "move"
  /\ outcome.raised = <<"DrawException", "Stalemate">>
  /\ At(board, <<5, 6>>) = QUEEN + WHITE
  /\ toMove = BLACK
  /\ moves[half_move_counter(Self)] = get_fen(Self)

\* the recorded positions whose board, side to move, castling and en-passant
\* fields are those of the current position
Occurrences ==
  Cardinality({k \in DOMAIN moves :
                 SubSeq(moves[k], 1, 4) = SubSeq(moves[half_move_counter(Self)], 1, 4)})

\* C10: in a game played from load_start without undo, an applied move raises
\* the repetition draw when its position occurs for the third time, and not
\* when it occurs for the second time
C10_ThirdOccurrenceDraws ==
  Applied =>
    /\ Occurrences >= 3 => outcome.raised = <<"DrawException", "Threefold repetition">>
    /\ Occurrences = 2 => outcome.raised # <<"DrawException", "Threefold repetition">>

\* C11: the repetition test compares the en-passant field: it is positive
\* exactly when more than two recorded positions equal the current one in
\* board, side to move, castling rights and en-passant target, so a record
\* that differs in the en-passant target only is not counted
C11_RepetitionComparesEnPassant ==
  (moves # <<>> /\ half_move_counter(Self) \in DOMAIN moves) =>
    (repetition(Self) <=> Occurrences > 2)

FiftyMoveRaised == outcome.raised = <<"DrawException", "Fifty move rule">>

\* C12: an applied move raises the fifty-move draw only when 100 plies have
\* been played since the last pawn move or capture, and it does raise it
\* then unless it raises the repetition draw, checkmate or stalemate instead;
\* it is never raised after 50 plies
C12_FiftyMoveAfterHundredPlies ==
  Applied =>
    /\ FiftyMoveRaised => halfMoveClock >= 100
    /\ (halfMoveClock >= 100 /\ outcome.raised = NoRaise) => FiftyMoveRaised

\* ------------------------------------------------------------ two objects
\* moves, long_castle and short_castle are dicts created in the class body
\* (lines 98-109) and only ever updated by item assignment
\* (self.moves[k] = ..., self.long_castle[c] = ...), never rebound: attribute
\* lookup on any object finds the class's dict.  board, toMove,
\* enPassantTarget, the clocks and lastFen are rebound by assignment on the
\* object.  The variable other holds the attributes bound on a second
\* object; its dicts are the variables moves, long_castle and short_castle.
OtherSelf ==
  [board |-> other.board, toMove |-> other.toMove,
   enPassantTarget |-> other.enPassantTarget,
   long_castle |-> long_castle, short_castle |-> short_castle,
   halfMoveClock |-> other.halfMoveClock, moveCounter |-> other.moveCounter,
   moves |-> moves, lastFen |-> other.lastFen]

\* a call on the second object ends
OtherReturn(op, st, raised, ret) ==
  /\ other' = [board |-> st.board, toMove |-> st.toMove,
               enPassantTarget |-> st.enPassantTarget,
               halfMoveClock |-> st.halfMoveClock, moveCounter |-> st.moveCounter,
               lastFen |-> st.lastFen]
  /\ long_castle' = st.long_castle
  /\ short_castle' = st.short_castle
  /\ moves' = st.moves
  /\ UNCHANGED <<board, toMove, enPassantTarget, halfMoveClock, moveCounter, lastFen>>
  /\ outcome' = [op |-> op, raised |-> raised, ret |-> ret]

OtherLoadStart == OtherReturn("other.load_start", load_start(OtherSelf), NoRaise, <<>>)

OtherMoveDone(r, start, end) ==
  OtherReturn("other.move", r.st, r.raised,
              IF r.raised = NoRaise THEN <<start, end>> ELSE <<>>)

OtherMove(start, end, promote_to) ==
  /\ (half_move_counter(OtherSelf) + 1) \in DOMAIN moves
     \/ Cardinality(DOMAIN moves) <= MaxPly
  /\ OtherMoveDone(move(OtherSelf, start, end, promote_to), start, end)

OtherMoveText(text) == OtherMove(Squares(text)[1], Squares(text)[2], QUEEN)

\* two games side by side, each set up once by load_start
NextTwo(pool) ==
  \/ board = emptyBoard /\ LoadStart
  \/ \E text \in pool : MoveText(text)
  \/ other.board = emptyBoard /\ OtherLoadStart
  \/ \E text \in pool : OtherMoveText(text)

\* the king's pawns and the white king's step to e2
PoolTwo ==
  { Txt4("E", "2", "E", "4"), Txt4("E", "7", "E", "5"), Txt4("E", "1", "E", "2") }

SpecTwo == Init /\ [][NextTwo(PoolTwo)]_vars

\* C13: a call on the second object leaves the first object's board, side to
\* move, castling rights, en-passant target, clocks and move history
\* unchanged
C13_InstancesAreIndependent ==
  [][outcome'.op \in {"other.load_start", "other.move"} =>
       UNCHANGED <<board, toMove, long_castle, short_castle, enPassantTarget,
                   halfMoveClock, moveCounter, moves>>]_vars

\* ------------------------------------------------------ malformed records
\* the start position's record without its last field
fenFiveFields == SubSeq(startFen, 1, 5)

\* the start position's record with x for the rook on h8
fenBadLetter ==
  << << <<"r", "n", "b", "q", "k", "b", "n", "x">>,
        <<"p", "p", "p", "p", "p", "p", "p", "p">>,
        <<"8">>, <<"8">>, <<"8">>, <<"8">>,
        <<"P", "P", "P", "P", "P", "P", "P", "P">>,
        <<"R", "N", "B", "Q", "K", "B", "N", "R">> >>,
     <<"w">>, <<"K", "Q", "k", "q">>, <<"-">>, <<"0">>, <<"1">> >>

\* the start position's record with x for the half-move clock
fenBadClock ==
  << << <<"r", "n", "b", "q", "k", "b", "n", "r">>,
        <<"p", "p", "p", "p", "p", "p", "p", "p">>,
        <<"8">>, <<"8">>, <<"8">>, <<"8">>,
        <<"P", "P", "P", "P", "P", "P", "P", "P">>,
        <<"R", "N", "B", "Q", "K", "B", "N", "R">> >>,
     <<"w">>, <<"K", "Q", "k", "q">>, <<"-">>, <<"x">>, <<"1">> >>

BadFenInputs == {fenFiveFields, fenBadLetter, fenBadClock}

NextDecode == NextOn(PoolMain, FenInputs \cup BadFenInputs, QueriesMain)

SpecDecode == Init /\ [][NextDecode]_vars

\* set_fen raised and left the position as it was
FailedKeeps(r) == r.raised # NoRaise /\ Position(r.st) = Position(Self)

\* C14: set_fen given a record with a wrong number of fields, an unknown
\* board character or a clock that is no number reports a failure and leaves
\* the board, the side to move, the castling rights, the en-passant target
\* and the clocks as they were before the call
C14_MalformedRecordChangesNothing ==
  \A fen \in BadFenInputs : FailedKeeps(set_fen(Self, fen))

\* the record with the wrong number of fields alone: it is refused before
\* anything is assigned
FieldCountChecked == FailedKeeps(set_fen(Self, fenFiveFields))

\* ------------------------------------------------------ algebraic notation
\* the character classes of move_notation's pattern, line 201; the class of
\* the disambiguating file is [abcdefg]
pieceLetters == {"K", "Q", "B", "N", "R"}
disFileLetters == {"a", "b", "c", "d", "e", "f", "g"}
rankDigits == {"1", "2", "3", "4", "5", "6", "7", "8"}
destFileLetters == {"a", "b", "c", "d", "e", "f", "g", "h"}

CharAt(t, i) == IF i <= Len(t) THEN t[i] ELSE ""

\* one way through the pattern: a, b, c, d tell (1 or 0) whether the optional
\* piece letter, file, rank and x are taken; the groups, or None if the text
\* does not match this way.  A group that is not taken is None.
match_way(t, a, b, c, d) ==
  IF /\ a = 1 => CharAt(t, 1) \in pieceLetters
     /\ b = 1 => CharAt(t, 1 + a) \in disFileLetters
     /\ c = 1 => CharAt(t, 1 + a + b) \in rankDigits
     /\ d = 1 => CharAt(t, 1 + a + b + c) = "x"
     /\ CharAt(t, 1 + a + b + c + d) \in destFileLetters
     /\ CharAt(t, 2 + a + b + c + d) \in rankDigits
  THEN << IF a = 1 THEN <<t[1]>> ELSE None,
          IF b = 1 THEN <<t[1 + a]>> ELSE None,
          IF c = 1 THEN <<t[1 + a + b]>> ELSE None,
          <<t[1 + a + b + c + d], t[2 + a + b + c + d]>> >>
  ELSE None

\* the ways in the order a backtracking matcher tries them: every optional
\* part is first taken, then skipped
matchWays ==
  << <<1, 1, 1, 1>>, <<1, 1, 1, 0>>, <<1, 1, 0, 1>>, <<1, 1, 0, 0>>,
     <<1, 0, 1, 1>>, <<1, 0, 1, 0>>, <<1, 0, 0, 1>>, <<1, 0, 0, 0>>,
     <<0, 1, 1, 1>>, <<0, 1, 1, 0>>, <<0, 1, 0, 1>>, <<0, 1, 0, 0>>,
     <<0, 0, 1, 1>>, <<0, 0, 1, 0>>, <<0, 0, 0, 1>>, <<0, 0, 0, 0>> >>

MatchAt(t, k) == match_way(t, matchWays[k][1], matchWays[k][2], matchWays[k][3], matchWays[k][4])

\* re.search of the pattern (anchored at the start) in the text: the groups
\* of the first way that matches, or None
re_search(t) ==
  LET ok == {k \in 1..16 : MatchAt(t, k) # None} IN
  IF ok = {} THEN None
  ELSE MatchAt(t, CHOOSE k \in ok : \A j \in ok : k <= j)

\* str.lower on a piece letter
lower(ch) ==
  IF ch = "P" THEN "p" ELSE IF ch = "N" THEN "n" ELSE IF ch = "B" THEN "b"
  ELSE IF ch = "R" THEN "r" ELSE IF ch = "Q" THEN "q" ELSE IF ch = "K" THEN "k"
  ELSE ch

\* lines 217-219: the squares i.. holding the value whose legal moves contain
\* dest, in np.where's order
RECURSIVE eligible_loop(_, _, _, _, _)
RECURSIVE eligible_add(_, _, _, _, _)
eligible_loop(s, squares, dest, i, el) ==
  IF i > Len(squares) THEN [el |-> el, st |-> s]
  ELSE eligible_add(legal_moves(s, squares[i]), squares, dest, i, el)

eligible_add(one, squares, dest, i, el) ==
  IF InSeq(dest, one.lm)
  THEN eligible_loop(one.st, squares, dest, i + 1, Append(el, squares[i]))
  ELSE eligible_loop(one.st, squares, dest, i + 1, el)

\* lines 221-225: with more than one eligible piece the list is narrowed by
\* the rank and by the file that were given (a tuple of one number, or None)
narrowed(el, dis_rank, dis_file) ==
  LET byRank == IF dis_rank # None
                THEN SelectSeq(el, LAMBDA x : x[1] = dis_rank[1]) ELSE el
      byFile == IF dis_file # None
                THEN SelectSeq(byRank, LAMBDA x : x[2] = dis_file[1]) ELSE byRank
  IN IF Len(el) > 1 THEN byFile ELSE el

\* move with what it returns: the two squares
move_squares(r, start, end) ==
  [st |-> r.st, raised |-> r.raised,
   ret |-> IF r.raised = NoRaise THEN <<start, end>> ELSE <<>>]

\* lines 227-234
notation_resolved(st, el, dest) ==
  IF Len(el) = 0
  THEN [st |-> st, raised |-> <<"ChessException", "Illegal move">>, ret |-> <<>>]
  ELSE IF Len(el) > 1
  THEN [st |-> st, raised |-> <<"ChessException", "Ambiguous move">>, ret |-> <<>>]
  ELSE move_squares(move(st, el[1], dest, QUEEN), el[1], dest)

notation_eligible(found, dis_rank, dis_file, dest) ==
  notation_resolved(found.st, narrowed(found.el, dis_rank, dis_file), dest)

\* lines 203-219, with the groups of the match
notation_matched(s, match) ==
  IF match = None
  THEN [st |-> s, raised |-> <<"ChessException", "Invalid move">>, ret |-> <<>>]
  ELSE
    LET dis_file == IF match[2] = None \/ match[1] = None THEN None
                    ELSE <<files[upper(match[2][1])]>>
        dis_rank == IF match[3] = None THEN None ELSE <<ranks[match[3][1]]>>
        dest == str_to_coor(match[4])
        piece_str == IF match[1] = None THEN "P" ELSE match[1][1]
        value == pieceValues[IF s.toMove = BLACK THEN lower(piece_str) ELSE piece_str]
        squares == SelectSeq(AllSquares, LAMBDA c : At(s.board, c) = value)
    IN notation_eligible(eligible_loop(s, squares, dest, 1, <<>>),
                         dis_rank, dis_file, dest)

castleShort == <<"O", "-", "O">>
castleLong == <<"O", "-", "O", "-", "O">>

\* move_notation: the state it leaves, the condition it raised and the
\* squares it returns
move_notation(s, notation) ==
  LET rank == IF s.toMove = WHITE THEN 0 ELSE 7 IN
  IF notation = castleShort
  THEN move_squares(move(s, <<rank, 4>>, <<rank, 6>>, QUEEN), <<rank, 4>>, <<rank, 6>>)
  ELSE IF notation = castleLong
  THEN move_squares(move(s, <<rank, 4>>, <<rank, 2>>, QUEEN), <<rank, 4>>, <<rank, 2>>)
  ELSE notation_matched(s, re_search(notation))

MoveNotationDone(r) == Return("move_notation", r.st, r.raised, r.ret)

MoveNotation(notation) ==
  /\ (half_move_counter(Self) + 1) \in DOMAIN moves
     \/ Cardinality(DOMAIN moves) <= MaxPly
  /\ MoveNotationDone(move_notation(Self, notation))

\* a typed move with what it says in standard algebraic notation: the kind of
\* piece, the file and the rank it names (a tuple of one number, or None)
\* and the destination
Typed(text, kind, file, rank, dest) ==
  [text |-> text, kind |-> kind, file |-> file, rank |-> rank, dest |-> dest]

\* 1. e4 d5 2. c4 a6 and the captures on d5; the knight moves to f3
PoolNotation ==
  { Typed(<<"e", "4">>, PAWN, None, None, <<3, 4>>),
    Typed(<<"d", "5">>, PAWN, None, None, <<4, 3>>),
    Typed(<<"c", "4">>, PAWN, None, None, <<3, 2>>),
    Typed(<<"a", "6">>, PAWN, None, None, <<5, 0>>),
    Typed(<<"e", "x", "d", "5">>, PAWN, <<4>>, None, <<4, 3>>),
    Typed(<<"N", "f", "3">>, KNIGHT, None, None, <<2, 5>>),
    Typed(<<"N", "b", "f", "3">>, KNIGHT, <<1>>, None, <<2, 5>>) }

NextNotation ==
  \/ moves = <<>> /\ LoadStart
  \/ \E n \in PoolNotation : MoveNotation(n.text)

SpecNotation == Init /\ [][NextNotation]_vars

\* the pieces the typed move can mean: of the side to move and of the named
\* kind, with the destination among their legal moves, on the file and the
\* rank that are named
Meant(n) ==
  {i \in 1..64 :
     /\ At(board, AllSquares[i]) = n.kind + toMove
     /\ n.file # None => AllSquares[i][2] = n.file[1]
     /\ n.rank # None => AllSquares[i][1] = n.rank[1]
     /\ InSeq(n.dest, legal_moves(Self, AllSquares[i]).lm)}

\* the call moved the piece from the square to the destination
MovedFrom(r, start, dest) ==
  /\ r.raised[1] # "ChessException"
  /\ At(r.st.board, start) = 0
  /\ At(r.st.board, dest) = At(board, start)
  /\ r.st.toMove = opposite(toMove)

\* the call moved nothing
NothingMoved(r) ==
  /\ r.raised[1] = "ChessException"
  /\ Position(r.st) = Position(Self)

Resolved(r, n, meant) ==
  /\ Cardinality(meant) = 1 => \A i \in meant : MovedFrom(r, AllSquares[i], n.dest)
  /\ meant = {} => NothingMoved(r)

\* C15: move_notation moves the one piece of the side to move that is of the
\* named kind, has the destination among its legal moves and stands on the
\* named file and rank; when no piece does, nothing is moved
C15_NotationResolvesPiece ==
  moves # <<>> =>
    \A n \in PoolNotation : Resolved(move_notation(Self, n.text), n, Meant(n))

\* the same for the moves that name no file or rank
UndisambiguatedResolves ==
  moves # <<>> =>
    \A n \in PoolNotation :
      (n.file = None /\ n.rank = None) =>
        Resolved(move_notation(Self, n.text), n, Meant(n))

\* ------------------------------------------------------- castling rights
\* 1. b3 g6 2. Bb2 a6 3. Bxh8 a5 4. Bg7: the white bishop takes the rook on
\* h8 and leaves the square again
PoolRook ==
  { Txt4("B", "2", "B", "3"), Txt4("G", "7", "G", "6"), Txt4("C", "1", "B", "2"),
    Txt4("A", "7", "A", "6"), Txt4("B", "2", "H", "8"), Txt4("A", "6", "A", "5"),
    Txt4("H", "8", "G", "7") }

NextRook == NextGame(PoolRook, QueriesMain)

SpecRook == Init /\ [][NextRook]_vars

homeRank(colour) == IF colour = WHITE THEN 0 ELSE 7

\* the rights of the colour after the applied move start -> ..: kept unless
\* the colour's king moved or a piece left the colour's rook home square
RightsKept(r, start, colour) ==
  LET king == At(board, start) = KING + colour IN
  /\ r.st.long_castle[colour]
       = (long_castle[colour] /\ ~king /\ start # <<homeRank(colour), 0>>)
  /\ r.st.short_castle[colour]
       = (short_castle[colour] /\ ~king /\ start # <<homeRank(colour), 7>>)

RightsRule(r, start) ==
  r.raised[1] \notin Rejections =>
    RightsKept(r, start, WHITE) /\ RightsKept(r, start, BLACK)

\* C16: after an applied move each castling right of each colour is set
\* exactly when it was set before and the move neither moved that colour's
\* king nor took a piece away from that colour's own rook home square (A1, H1
\* for White, A8, H8 for Black); a piece leaving the other side's corner does
\* not clear its own side's right
C16_RightsChangeOnlyForKingOrRook ==
  \A text \in PoolRook : RightsRule(TryMove(text), Squares(text)[1])

\* --------------------------------------------------------------- en passant
\* 1. e4 a6 2. e5 d5 3. exd6 (en passant) Qxd6; the queen can also go to d6
\* without capturing, after 1. e4 d5 2. e5
PoolPassant ==
  { Txt4("E", "2", "E", "4"), Txt4("A", "7", "A", "6"), Txt4("E", "4", "E", "5"),
    Txt4("D", "7", "D", "5"), Txt4("E", "5", "D", "6"), Txt4("D", "8", "D", "6") }

\* the squares e5 and d5
QueriesPassant == { <<4, 4>>, <<4, 3>> }

NextPassant == NextGame(PoolPassant, QueriesPassant)

SpecPassant == Init /\ [][NextPassant]_vars

\* the en-passant target after the applied move start -> end
TargetRule(r, start, end) ==
  r.raised[1] \notin Rejections =>
    r.st.enPassantTarget =
      IF At(board, start) % 64 = PAWN /\ Abs(end[1] - start[1]) = 2
      THEN <<(start[1] + end[1]) \div 2, start[2]>>
      ELSE None

\* C17: after every applied move the en-passant target is set exactly when
\* the move was a pawn's two-square advance, and is then the square the pawn
\* passed over; any other move clears it
C17_TargetLifecycle ==
  \A text \in PoolPassant : TargetRule(TryMove(text), Squares(text)[1], Squares(text)[2])

\* the move after a pawn's double step has been applied: the record of the
\* ply before has a target and the object has none
C17_Witness ==
  /\ Applied
  /\ enPassantTarget = None
  /\ (half_move_counter(Self) - 1) \in DOMAIN moves
  /\ moves[half_move_counter(Self) - 1][4] # <<"-">>

\* the two squares diagonally in front of the pawn of the colour on sq
DiagonalSteps(sq, colour) ==
  { d \in { <<sq[1] + (IF colour = WHITE THEN 1 ELSE -1), sq[2] - 1>>,
            <<sq[1] + (IF colour = WHITE THEN 1 ELSE -1), sq[2] + 1>> } :
      OnBoard(d) }

\* legal_moves of the pawn on sq lists an empty diagonal square exactly when
\* it is the en-passant target and the capture leaves the king safe
PassantListed(sq) ==
  At(board, sq) % 64 = PAWN =>
    \A d \in DiagonalSteps(sq, val_to_piece(At(board, sq))[2]) :
      At(board, d) = 0 =>
        (InSeq(d, legal_moves(Self, sq).lm)
           <=> (d = enPassantTarget /\ KingSafeAfter(sq, d)))

\* the board after the pawn on start has captured en passant on end: the
\* pawn beside it, on end's file, is gone and nothing else has changed
PassantBoard(start, end) ==
  Put(Put(Put(board, <<start[1], end[2]>>, 0), end, At(board, start)), start, 0)

\* an applied pawn move onto an empty square of another file took exactly
\* the enemy pawn that had just made its double step
PassantTaken(r, start, end) ==
  ( /\ r.raised[1] \notin Rejections
    /\ At(board, start) % 64 = PAWN
    /\ start[2] # end[2]
    /\ At(board, end) = 0 )
  => /\ end = enPassantTarget
     /\ At(board, <<start[1], end[2]>>) = PAWN + opposite(toMove)
     /\ moves[half_move_counter(Self)][4] = coor_to_str(end)
     /\ r.st.board = PassantBoard(start, end)

\* C18: a pawn's legal moves include a diagonal step onto an empty square
\* exactly when that square is the en-passant target and the capture leaves
\* the mover's king safe; applying it removes the enemy pawn that has just
\* advanced two squares, on the mover's start rank and the destination's
\* file, and no other piece
C18_PassantCapture ==
  /\ \A sq \in QueriesPassant : PassantListed(sq)
  /\ \A text \in PoolPassant :
       PassantTaken(TryMove(text), Squares(text)[1], Squares(text)[2])

\* after E2E4, A7A6, E4E5, D7D5 the pawn on e5 has taken on d6: the pawn is
\* on d6 and d5 is empty
C18_Witness ==
  /\ Applied
  /\ outcome.ret = << <<4, 4>>, <<5, 3>> >>
  /\ At(board, <<5, 3>>) = PAWN + WHITE
  /\ At(board, <<4, 3>>) = 0
  /\ At(board, <<4, 4>>) = 0

PieceCount(b) == Cardinality({i \in 1..64 : At(b, AllSquares[i]) # 0})

\* the clocks and the side to move after the applied move of the piece on
\* start
ClockRule(r, start) ==
  r.raised[1] \notin Rejections =>
    /\ r.st.halfMoveClock =
         IF At(board, start) % 64 = PAWN \/ PieceCount(r.st.board) < PieceCount(board)
         THEN 0 ELSE halfMoveClock + 1
    /\ r.st.moveCounter = IF toMove = BLACK THEN moveCounter + 1 ELSE moveCounter
    /\ r.st.toMove = opposite(toMove)

\* C19: after every applied move the half-move clock is 0 if a pawn moved or
\* a piece was captured and one more than before otherwise; the full-move
\* counter grows by one exactly after Black's moves; the side to move
\* alternates
C19_ClockUpdate ==
  \A text \in PoolPassant : ClockRule(TryMove(text), Squares(text)[1])

\* after 1. e4 d5 2. e5 the queen's quiet move to d6 has been applied: the
\* clock counts one ply, the third full move begins
C19_Witness ==
  /\ Applied
  /\ outcome.ret = << <<7, 3>>, <<5, 3>> >>
  /\ halfMoveClock = 1
  /\ moveCounter = 3
  /\ toMove = WHITE

\* ------------------------------------------------- order of the conditions
RepetitionRaised == outcome.raised = <<"DrawException", "Threefold repetition">>

MateOrStalemateRaised ==
  \/ outcome.raised[1] = "CheckmateException"
  \/ outcome.raised = <<"DrawException", "Stalemate">>

\* C20: after an applied move exactly one outcome is reported, in the order
\* repetition, no legal move, fifty-move: the repetition draw whenever the
\* repetition test is positive; otherwise checkmate or stalemate whenever
\* the side to move has no legal move, also with the half-move clock at the
\* fifty-move threshold; otherwise the fifty-move draw when the clock has
\* reached the threshold; otherwise the move returns
C20_TerminationOrder ==
  Applied =>
    IF repetition(Self) THEN RepetitionRaised
    ELSE IF NoLegalMove THEN MateOrStalemateRaised
    ELSE IF halfMoveClock >= FiftyMoveLimit THEN FiftyMoveRaised
    ELSE outcome.raised = NoRaise

\* the queen's move to g6 has stalemated Black with the half-move clock at
\* the threshold: stalemate is raised, not the fifty-move draw
C20_Witness ==
  /\ Applied
  /\ halfMoveClock >= FiftyMoveLimit
  /\ NoLegalMove
  /\ outcome.raised = <<"DrawException", "Stalemate">>

\* ---------------------------------------------------------- terminal states
\* the last call was a move that raised checkmate, stalemate or a draw
TerminalRaised ==
  outcome.op = "move" /\ outcome.raised[1] \in {"CheckmateException", "DrawException"}

\* the call was refused and the position is what it was
Refused(r) == r.raised[1] \in Rejections /\ Position(r.st) = Position(Self)

\* C21: once a move has raised checkmate, stalemate, the repetition draw or
\* the fifty-move draw, no further move is accepted: every move call that
\* follows is refused and leaves the position unchanged
C21_TerminalStatesAreFinal ==
  TerminalRaised => \A text \in PoolMain : Refused(TryMove(text))

\* the same after checkmate and stalemate alone
MateAndStalemateAreFinal ==
  (TerminalRaised /\ ~FiftyMoveRaised /\ ~RepetitionRaised)
  => \A text \in PoolMain : Refused(TryMove(text))

\* ---------------------------------------------------------------- promotion
\* 1. h4 a6 2. h5 a5 3. h6 a4 4. hxg7 a3 5. gxh8, and the pawn moves of the
\* ending below
PoolPromote ==
  { Txt4("H", "2", "H", "4"), Txt4("A", "7", "A", "6"), Txt4("H", "4", "H", "5"),
    Txt4("A", "6", "A", "5"), Txt4("H", "5", "H", "6"), Txt4("A", "5", "A", "4"),
    Txt4("H", "6", "G", "7"), Txt4("A", "4", "A", "3"), Txt4("G", "7", "H", "8"),
    Txt4("B", "7", "B", "8"), Txt4("G", "2", "G", "1") }

\* the kinds asked for
PromoteKinds == {KNIGHT, QUEEN}

\* a pawn ending: each side has a pawn one step from promotion
fenPromote ==
  << << <<"4", "k", "3">>, <<"1", "P", "6">>, <<"8">>, <<"8">>,
        <<"8">>, <<"8">>, <<"6", "p", "1">>, <<"4", "K", "3">> >>,
     <<"w">>, <<"-">>, <<"-">>, <<"0">>, <<"1">> >>

MoveKind(text, kind) == Move(Squares(text)[1], Squares(text)[2], kind)

NextPromote ==
  \/ moves = <<>> /\ LoadStart
  \/ moves = <<>> /\ SetFen(fenPromote)
  \/ \E text \in PoolPromote : \E kind \in PromoteKinds : MoveKind(text, kind)
  \/ Applied /\ RevertMove

SpecPromote == Init /\ [][NextPromote]_vars

farRank(colour) == IF colour = WHITE THEN 7 ELSE 0

\* an applied move of a pawn to the far rank leaves a piece of the mover's
\* colour and of the kind asked for on the destination
PromotionRule(r, start, end, kind) ==
  ( /\ r.raised[1] \notin Rejections
    /\ At(board, start) = PAWN + toMove
    /\ end[1] = farRank(toMove) )
  => At(r.st.board, end) = kind + toMove

NoPawnOnFarRanks ==
  \A f \in 0..7 : At(board, <<0, f>>) % 64 # PAWN /\ At(board, <<7, f>>) % 64 # PAWN

\* C22: an applied move that brings a pawn to the far rank leaves a piece of
\* the mover's colour and of the requested kind on the destination, and no
\* pawn stands on the first or the last rank in any position reached
C22_Promotion ==
  /\ NoPawnOnFarRanks
  /\ \A text \in PoolPromote : \A kind \in PromoteKinds :
       PromotionRule(move(Self, Squares(text)[1], Squares(text)[2], kind),
                     Squares(text)[1], Squares(text)[2], kind)

\* in the game from the start position the pawn has taken on h8 and become
\* a knight
C22_Witness ==
  /\ Applied
  /\ 0 \in DOMAIN moves
  /\ moves[0] = startFen
  /\ At(board, <<7, 7>>) = KNIGHT + WHITE
  /\ At(board, <<6, 6>>) = 0

\* ------------------------------------------------------------ the two kings
\* the fool's mate, 1. f3 e5 2. g4 Qh4, and a knight's move
PoolFool ==
  { Txt4("F", "2", "F", "3"), Txt4("E", "7", "E", "5"), Txt4("G", "2", "G", "4"),
    Txt4("D", "8", "H", "4"), Txt4("B", "8", "C", "6") }

\* the squares h4 and e1
QueriesKings == { <<3, 7>>, <<0, 4>> }

NextKings == NextGame(PoolFool, QueriesKings)

SpecKings == Init /\ [][NextKings]_vars

KingCount(b, colour) ==
  Cardinality({i \in 1..64 : At(b, AllSquares[i]) = KING + colour})

OneKingEach(b) == KingCount(b, WHITE) = 1 /\ KingCount(b, BLACK) = 1

\* the boards on which legal_moves(sq) evaluates in_check: one per candidate
\* destination, as _push_move leaves it
Simulated(sq) ==
  IF At(board, sq) = 0 THEN {}
  ELSE {Pushed(sq, d) : d \in Range(candidates(Self, sq, val_to_piece(At(board, sq))))}

\* C23: in every position reached from the start position by applied moves
\* the board holds exactly one white king and exactly one black king, and so
\* does every board on which in_check is evaluated while legal_moves
\* simulates the candidate moves of a piece
C23_KingInvariant ==
  moves # <<>> =>
    /\ OneKingEach(board)
    /\ \A sq \in QueriesKings : \A b \in Simulated(sq) : OneKingEach(b)

\* the same for the simulations move itself runs: those of the pieces of the
\* side to move
KingsKeptBySideToMove ==
  moves # <<>> =>
    /\ OneKingEach(board)
    /\ \A i \in 1..64 :
         (At(board, AllSquares[i]) > toMove /\ At(board, AllSquares[i]) < toMove + 64)
         => \A b \in Simulated(AllSquares[i]) : OneKingEach(b)

\* a set castling right of the colour has the king on its home square and a
\* rook of the colour on the corner of that side
RightHasPieces(colour) ==
  /\ long_castle[colour] =>
       /\ At(board, <<homeRank(colour), 4>>) = KING + colour
       /\ At(board, <<homeRank(colour), 0>>) = ROOK + colour
  /\ short_castle[colour] =>
       /\ At(board, <<homeRank(colour), 4>>) = KING + colour
       /\ At(board, <<homeRank(colour), 7>>) = ROOK + colour

\* C24: in every position reached from the start position by applied moves,
\* a castling right that is set has its colour's king on the home square and
\* a rook of that colour on the corresponding corner, also after the rook
\* has been captured there
C24_RightsImplyHomeSquares ==
  moves # <<>> => RightHasPieces(WHITE) /\ RightHasPieces(BLACK)

\* ------------------------------------------------------- undo and history
\* the knights going out and back
PoolKnights ==
  { Txt4("G", "1", "F", "3"), Txt4("G", "8", "F", "6"),
    Txt4("F", "3", "G", "1"), Txt4("F", "6", "G", "8") }

\* a game from load_start in which moves are undone, any number in a row
NextUndo(pool) ==
  \/ moves = <<>> /\ LoadStart
  \/ \E text \in pool : MoveText(text)
  \/ moves # <<>> /\ RevertMove

SpecUndo == Init /\ [][NextUndo(PoolKnights)]_vars

\* the positions of the current line, those recorded at the plies up to the
\* current one, that equal the current position in board, side to move,
\* castling rights and en-passant target
LineOccurrences ==
  Cardinality({k \in DOMAIN moves :
                 /\ k <= half_move_counter(Self)
                 /\ SubSeq(moves[k], 1, 4) = SubSeq(moves[half_move_counter(Self)], 1, 4)})

\* C25: a move raises the repetition draw only if its position has occurred
\* at least three times in the current line of play; records of plies that
\* were undone do not count
C25_RepetitionCountsCurrentLine ==
  (Applied /\ RepetitionRaised) => LineOccurrences >= 3

\* ---------------------------------------------------------- castling tokens
\* 1. d4 a6 2. Bf4 a5 3. Kd2 a4 4. Qe1 a3: the queen stands on e1, and d1
\* and c1 are empty
PoolTokens ==
  { Txt4("D", "2", "D", "4"), Txt4("A", "7", "A", "6"), Txt4("C", "1", "F", "4"),
    Txt4("A", "6", "A", "5"), Txt4("E", "1", "D", "2"), Txt4("A", "5", "A", "4"),
    Txt4("D", "1", "E", "1"), Txt4("A", "4", "A", "3") }

CastleTokens == {castleShort, castleLong}

\* moves are typed as squares, castling as its token
NextTokens ==
  \/ moves = <<>> /\ LoadStart
  \/ \E text \in PoolTokens : MoveText(text)
  \/ \E token \in CastleTokens : MoveNotation(token)
  \/ Applied /\ RevertMove

SpecTokens == Init /\ [][NextTokens]_vars

NotationRefusals == Rejections \cup {"ChessException"}

\* the token castled (the king went two files from the E-file home square
\* and the rook stands next to it on the side it came from), or the call
\* raised and the position is what it was
CastledOrRefused(r, to) ==
  LET rank == homeRank(toMove) IN
  IF r.raised[1] \in NotationRefusals
  THEN Position(r.st) = Position(Self)
  ELSE /\ At(board, <<rank, 4>>) = KING + toMove
       /\ At(r.st.board, <<rank, 4 + 2 * to>>) = KING + toMove
       /\ At(r.st.board, <<rank, 4 + to>>) = ROOK + toMove
       /\ At(r.st.board, <<rank, 4>>) = 0

\* C26: move_notation('O-O') and move_notation('O-O-O') either castle for
\* the side to move or raise a condition and leave the position unchanged;
\* they never move another piece that stands on the king's home square
C26_CastlingTokensOnlyCastle ==
  moves # <<>> =>
    /\ CastledOrRefused(move_notation(Self, castleShort), 1)
    /\ CastledOrRefused(move_notation(Self, castleLong), -1)

====
